---- MODULE Spec2Model ----
(***************************************************************************)
(* The snapshot-producing sorting engine of src/Project/algorithms.py.     *)
(*                                                                         *)
(* Each of the five algorithms is a Python generator.  A generator object  *)
(* is modelled as a record holding its suspended position `pc` (the line   *)
(* of the yield it is suspended at, "start" before the first pull, "done"  *)
(* once it has returned) and its local variables.  One pull (next(gen))    *)
(* runs the body from the current yield to the following one; it is one    *)
(* atomic step, modelled by the operator <algorithm>_next.  The snapshot a *)
(* suspended generator has just yielded is <algorithm>_yield.              *)
(*                                                                         *)
(* Lists are functions over 0..n-1 (Python indices).  An element is a pair *)
(* <<key, tag>>: the key is the number the code compares, the tag is the   *)
(* identity of the list item (its position in the input), which the code   *)
(* never reads.  Index lists ('active', 'sorted') are sequences.           *)
(***************************************************************************)
EXTENDS Integers, Sequences, FiniteSets

\* Longest input list explored.
MaxLen == 4
\* Keys are drawn from 1..MaxVal.
MaxVal == 3
\* Pulls that signal exhaustion (StopIteration) before the consumer gives up.
MaxStops == 2

VARIABLES
    algo,    \* name of the algorithm the generator was created from
    arr,     \* the list passed to the algorithm (the caller's list)
    gen,     \* the generator object
    snaps,   \* history: every snapshot pulled so far, in order
    sites,   \* history: the yield site (pc) of each snapshot of snaps
    stops    \* number of pulls that signalled exhaustion (StopIteration)

\* The run controller of src/Project/app.py (the second part of the module).
VARIABLES
    session_state,  \* st.session_state: array, generator, running, last_snapshot
    algo_name,      \* the algorithm selected when the form was last submitted
    size,           \* the array size selected when the form was last submitted
    event,          \* history: what the last script run did
    stopped         \* history: a stop was handled and nothing was pulled since

engine_vars == <<algo, arr, gen, snaps, sites, stops>>

ctl_vars == <<session_state, algo_name, size, event, stopped>>

vars == <<algo, arr, gen, snaps, sites, stops, session_state, algo_name, size, event, stopped>>

\* the step sequence is exhausted: a pull has raised StopIteration
done == stops > 0

----------------------------------------------------------------------------
\* Python helpers

Key(e) == e[1]

Tag(e) == e[2]

len(a) == Cardinality(DOMAIN a)

\* list(range(lo, hi)) as a sequence
range(lo, hi) == [k \in 1..(IF hi > lo THEN hi - lo ELSE 0) |-> lo + k - 1]

\* a[lo:hi] for 0 <= lo <= hi <= len(a), re-indexed from 0
slice(a, lo, hi) == [k \in 0..(hi - lo - 1) |-> a[lo + k]]

\* a[p], a[q] = a[q], a[p]
swap_lossy(a, p, q) == [a EXCEPT ![p] = a[q]]

swap(a, p, q) == [a EXCEPT ![p] = a[q], ![q] = a[p]]

\* the (array, info) tuple of a yield; an info key the code leaves out is the
\* empty list a consumer's info.get(key, []) reads
Snapshot(array, active, sorted, label) ==
    [array |-> array, active |-> active, sorted |-> sorted, label |-> label]

\* {'active': [], 'sorted': []}: the info of the first yield of every algorithm
before_info_marked(a) == Snapshot(a, <<0>>, <<>>, <<>>)

before_info(a) == Snapshot(a, <<>>, <<>>, <<>>)

\* {'active': [], 'sorted': list(range(n))}: the info of the last yield
final_info_short(a, n) == Snapshot(a, <<>>, range(0, n - 1), <<>>)

final_info(a, n) == Snapshot(a, <<>>, range(0, n), <<>>)

----------------------------------------------------------------------------
\* bubble_sort

bubble_sort(list) == [fn |-> "bubble_sort", pc |-> "start", arr |-> list]

\* a[j] > a[j + 1]
bubble_out_of_order_lt(x, y) == Key(x) < Key(y)

bubble_out_of_order(x, y) == Key(x) > Key(y)

\* if not swapped: break
bubble_break_never(swapped) == FALSE

bubble_break(swapped) == ~swapped

\* list(range(n - i, n)): the tail reported at lines 27 and 31
bubble_sorted_wide(n, i) == range(n - i - 1, n)

bubble_sorted(n, i) == range(n - i, n)

bubble_sort_yield(g) ==
    CASE g.pc = "L21" -> before_info(g.a)
      [] g.pc = "L23" -> before_info(g.a)
      [] g.pc = "L27" -> Snapshot(g.a, <<g.j, g.j + 1>>, bubble_sorted(g.n, g.i), <<>>)
      [] g.pc = "L31" -> Snapshot(g.a, <<g.j, g.j + 1>>, bubble_sorted(g.n, g.i), <<>>)
      [] g.pc = "L34" -> final_info(g.a, g.n)

\* the two for loops from the head of the inner one with loop variable j,
\* up to the next yield
RECURSIVE bubble_loop(_, _, _, _)
bubble_loop(g, i, j, swapped) ==
    IF j < g.n - i - 1
    THEN [g EXCEPT !.pc = "L27", !.i = i, !.j = j, !.swapped = swapped]
    ELSE IF bubble_break(swapped)
         THEN [g EXCEPT !.pc = "L34", !.i = i, !.swapped = swapped]
         ELSE IF i + 1 < g.n
              THEN bubble_loop(g, i + 1, 0, FALSE)
              ELSE [g EXCEPT !.pc = "L34", !.i = i, !.swapped = swapped]

bubble_sort_next(g) ==
    CASE g.pc = "start" ->
            LET a == g.arr
                n == len(a)
                g1 == [fn |-> g.fn, pc |-> "L23", arr |-> g.arr, a |-> a, n |-> n,
                       i |-> 0, j |-> 0, swapped |-> FALSE]
            IN  IF n = 0 THEN [g1 EXCEPT !.pc = "L21"] ELSE g1
      [] g.pc = "L21" -> [g EXCEPT !.pc = "done"]
      [] g.pc = "L23" -> bubble_loop(g, 0, 0, FALSE)
      [] g.pc = "L27" ->
            IF bubble_out_of_order(g.a[g.j], g.a[g.j + 1])
            THEN [g EXCEPT !.a = swap(g.a, g.j, g.j + 1), !.swapped = TRUE, !.pc = "L31"]
            ELSE bubble_loop(g, g.i, g.j + 1, g.swapped)
      [] g.pc = "L31" -> bubble_loop(g, g.i, g.j + 1, g.swapped)
      [] g.pc = "L34" -> [g EXCEPT !.pc = "done"]
      [] g.pc = "done" -> g

----------------------------------------------------------------------------
\* selection_sort

selection_sort(list) == [fn |-> "selection_sort", pc |-> "start", arr |-> list]

\* a[j] < a[min_idx]
selection_smaller(x, y) == Key(x) < Key(y)

\* list(range(i)): the prefix reported during the scan of iteration i
selection_scan_sorted_wide(i) == range(0, i + 1)

selection_scan_sorted(i) == range(0, i)

\* list(range(i + 1)): the prefix reported after the swap of iteration i
selection_swap_sorted(i) == range(0, i + 1)

selection_sort_yield(g) ==
    CASE g.pc = "L40" -> before_info(g.a)
      [] g.pc = "L44" -> Snapshot(g.a, <<g.min_idx, g.j>>, selection_scan_sorted(g.i), <<>>)
      [] g.pc = "L47" -> Snapshot(g.a, <<g.min_idx>>, selection_scan_sorted(g.i), <<>>)
      [] g.pc = "L50" -> Snapshot(g.a, <<g.i, g.min_idx>>, selection_swap_sorted(g.i), <<>>)
      [] g.pc = "L51" -> final_info(g.a, g.n)

\* the outer loop from its head with loop variable i (inner = FALSE), or from
\* the head of the inner loop with loop variable j (inner = TRUE), up to the
\* next yield
RECURSIVE selection_loop(_, _, _, _, _)
selection_loop(g, inner, i, min_idx, j) ==
    IF inner
    THEN IF j < g.n
         THEN [g EXCEPT !.pc = "L44", !.i = i, !.min_idx = min_idx, !.j = j]
         ELSE IF i # min_idx
              THEN [g EXCEPT !.a = swap(g.a, i, min_idx), !.pc = "L50",
                             !.i = i, !.min_idx = min_idx]
              ELSE selection_loop(g, FALSE, i + 1, min_idx, j)
    ELSE IF i < g.n
         THEN selection_loop(g, TRUE, i, i, i + 1)
         ELSE [g EXCEPT !.pc = "L51"]

selection_sort_next(g) ==
    CASE g.pc = "start" ->
            [fn |-> g.fn, pc |-> "L40", arr |-> g.arr, a |-> g.arr, n |-> len(g.arr),
             i |-> 0, min_idx |-> 0, j |-> 0]
      [] g.pc = "L40" -> selection_loop(g, FALSE, 0, 0, 0)
      [] g.pc = "L44" ->
            IF selection_smaller(g.a[g.j], g.a[g.min_idx])
            THEN [g EXCEPT !.min_idx = g.j, !.pc = "L47"]
            ELSE selection_loop(g, TRUE, g.i, g.min_idx, g.j + 1)
      [] g.pc = "L47" -> selection_loop(g, TRUE, g.i, g.min_idx, g.j + 1)
      [] g.pc = "L50" -> selection_loop(g, FALSE, g.i + 1, g.min_idx, g.j)
      [] g.pc = "L51" -> [g EXCEPT !.pc = "done"]
      [] g.pc = "done" -> g

----------------------------------------------------------------------------
\* insertion_sort

insertion_sort(list) == [fn |-> "insertion_sort", pc |-> "start", arr |-> list]

\* a[j] > key
insertion_greater_or_equal(x, key) == Key(x) >= Key(key)

insertion_greater(x, key) == Key(x) > Key(key)

\* [j + 1] at line 65, after j -= 1
insertion_shift_active_stale(j) == <<j>>

insertion_shift_active(j) == <<j + 1>>

\* list(range(i + 1, n)): the untouched tail
insertion_sorted(i, n) == range(i + 1, n)

insertion_sort_yield(g) ==
    CASE g.pc = "L57" -> before_info(g.a)
      [] g.pc = "L62" -> Snapshot(g.a, <<g.j, g.j + 1>>, insertion_sorted(g.i, g.n), <<>>)
      [] g.pc = "L65" -> Snapshot(g.a, insertion_shift_active(g.j),
                                  insertion_sorted(g.i, g.n), <<>>)
      [] g.pc = "L67" -> Snapshot(g.a, <<g.j + 1>>, insertion_sorted(g.i, g.n), <<>>)
      [] g.pc = "L68" -> final_info(g.a, g.n)

\* the while loop from its condition, up to the next yield
insertion_while(g) ==
    IF g.j >= 0 /\ insertion_greater(g.a[g.j], g.key)
    THEN [g EXCEPT !.pc = "L62"]
    ELSE [g EXCEPT !.a = [g.a EXCEPT ![g.j + 1] = g.key], !.pc = "L67"]

\* the for loop from its head with loop variable i, up to the next yield
insertion_for(g, i) ==
    IF i < g.n
    THEN insertion_while([g EXCEPT !.i = i, !.key = g.a[i], !.j = i - 1])
    ELSE [g EXCEPT !.pc = "L68"]

insertion_sort_next(g) ==
    CASE g.pc = "start" ->
            [fn |-> g.fn, pc |-> "L57", arr |-> g.arr, a |-> g.arr, n |-> len(g.arr),
             i |-> 0, key |-> <<0, 0>>, j |-> 0]
      [] g.pc = "L57" -> insertion_for(g, 1)
      [] g.pc = "L62" ->
            [g EXCEPT !.a = [g.a EXCEPT ![g.j + 1] = g.a[g.j]], !.j = g.j - 1, !.pc = "L65"]
      [] g.pc = "L65" -> insertion_while(g)
      [] g.pc = "L67" -> insertion_for(g, g.i + 1)
      [] g.pc = "L68" -> [g EXCEPT !.pc = "done"]
      [] g.pc = "done" -> g

----------------------------------------------------------------------------
\* merge_sort
\*
\* The nested generators (yield from) are an explicit call stack of sort_rec
\* frames, the innermost last.  A frame's `at` is where it stands: "call"
\* (entered, nothing run yet) or the line of the yield from it is suspended in.
\* merge is only ever called by the innermost sort_rec frame, so its locals
\* (left, mid, right, L, R, i, j, k) are fields of the generator record.

merge_sort(list) == [fn |-> "merge_sort", pc |-> "start", arr |-> list]

\* L[i] <= R[j]: the head of the left buffer is written
merge_take_left_strict(l, r) == Key(l) < Key(r)

merge_take_left(l, r) == Key(l) <= Key(r)

merge_sort_yield(g) ==
    CASE g.pc = "L77" -> before_info(g.a)
      [] g.pc = "L80" -> before_info(g.a)
      [] g.pc = "L88" -> Snapshot(g.a, <<g.k>>, <<>>,
                                  <<"merging", g.left, g.mid, g.mid, g.right>>)
      [] g.pc = "L96" -> Snapshot(g.a, <<g.k - 1>>, <<>>, <<"after write">>)
      [] g.pc = "L101" -> Snapshot(g.a, <<g.k - 1>>, <<>>, <<>>)
      [] g.pc = "L106" -> Snapshot(g.a, <<g.k - 1>>, <<>>, <<>>)
      [] g.pc = "L117" -> final_info(g.a, g.n)

Frame(left, right, mid, at) == [left |-> left, right |-> right, mid |-> mid, at |-> at]

Top(stack) == stack[Len(stack)]

Pop(stack) == SubSeq(stack, 1, Len(stack) - 1)

RECURSIVE sort_rec(_, _)

\* merge from the third loop (while j < len(R)), up to the next yield; when
\* the loop ends merge returns into the sort_rec frame that called it
merge_while_R(g) ==
    IF g.j < len(g.R)
    THEN [g EXCEPT !.a = [g.a EXCEPT ![g.k] = g.R[g.j]], !.j = g.j + 1, !.k = g.k + 1,
                   !.pc = "L106"]
    ELSE sort_rec(g, TRUE)

\* merge from the second loop (while i < len(L)), up to the next yield
merge_while_L(g) ==
    IF g.i < len(g.L)
    THEN [g EXCEPT !.a = [g.a EXCEPT ![g.k] = g.L[g.i]], !.i = g.i + 1, !.k = g.k + 1,
                   !.pc = "L101"]
    ELSE merge_while_R(g)

\* merge from the first loop (while i < len(L) and j < len(R)), up to the
\* next yield
merge_while(g) ==
    IF g.i < len(g.L) /\ g.j < len(g.R)
    THEN [g EXCEPT !.pc = "L88"]
    ELSE merge_while_L(g)

\* merge(left, mid, right) from its first line, up to its first yield
merge(g, left, mid, right) ==
    merge_while([g EXCEPT !.left = left, !.mid = mid, !.right = right,
                          !.L = slice(g.a, left, mid), !.R = slice(g.a, mid, right),
                          !.i = 0, !.j = 0, !.k = left])

\* the sort_rec frames from the innermost one, up to the next yield.
\* returned = TRUE: the generator the innermost frame delegates to has just
\* finished; when no frame is left, sort_rec(0, n) has finished (line 116).
sort_rec(g, returned) ==
    IF g.stack = <<>>
    THEN [g EXCEPT !.pc = "L117"]
    ELSE LET f == Top(g.stack)
             rest == Pop(g.stack)
         IN  CASE ~returned /\ f.right - f.left <= 1 ->
                     sort_rec([g EXCEPT !.stack = rest], TRUE)
               [] ~returned /\ f.right - f.left > 1 ->
                     LET mid == (f.left + f.right) \div 2
                     IN  sort_rec([g EXCEPT !.stack = rest
                                       \o <<Frame(f.left, f.right, mid, "L112"),
                                            Frame(f.left, mid, 0, "call")>>], FALSE)
               [] returned /\ f.at = "L112" ->
                     sort_rec([g EXCEPT !.stack = rest
                                       \o <<Frame(f.left, f.right, f.mid, "L113"),
                                            Frame(f.mid, f.right, 0, "call")>>], FALSE)
               [] returned /\ f.at = "L113" ->
                     merge([g EXCEPT !.stack = rest
                                       \o <<Frame(f.left, f.right, f.mid, "L114")>>],
                           f.left, f.mid, f.right)
               [] returned /\ f.at = "L114" ->
                     sort_rec([g EXCEPT !.stack = rest], TRUE)

merge_sort_next(g) ==
    CASE g.pc = "start" ->
            LET n == len(g.arr)
            IN  [fn |-> g.fn, pc |-> IF n = 0 THEN "L77" ELSE "L80", arr |-> g.arr,
                 a |-> g.arr, n |-> n, stack |-> <<>>, left |-> 0, mid |-> 0, right |-> 0,
                 L |-> <<>>, R |-> <<>>, i |-> 0, j |-> 0, k |-> 0]
      [] g.pc = "L77" -> [g EXCEPT !.pc = "done"]
      [] g.pc = "L80" -> sort_rec([g EXCEPT !.stack = <<Frame(0, g.n, 0, "call")>>], FALSE)
      [] g.pc = "L88" ->
            IF merge_take_left(g.L[g.i], g.R[g.j])
            THEN [g EXCEPT !.a = [g.a EXCEPT ![g.k] = g.L[g.i]], !.i = g.i + 1,
                           !.k = g.k + 1, !.pc = "L96"]
            ELSE [g EXCEPT !.a = [g.a EXCEPT ![g.k] = g.R[g.j]], !.j = g.j + 1,
                           !.k = g.k + 1, !.pc = "L96"]
      [] g.pc = "L96" -> merge_while(g)
      [] g.pc = "L101" -> merge_while_L(g)
      [] g.pc = "L106" -> merge_while_R(g)
      [] g.pc = "L117" -> [g EXCEPT !.pc = "done"]
      [] g.pc = "done" -> g

----------------------------------------------------------------------------
\* quick_sort
\*
\* Only the iterative body (lines 165-184) runs; the nested functions
\* partition and quick_rec (lines 130-162) are defined and never called.

quick_sort(list) == [fn |-> "quick_sort", pc |-> "start", arr |-> list]

\* a[j] < pivot
quick_smaller_or_equal(x, pivot) == Key(x) <= Key(pivot)

quick_smaller(x, pivot) == Key(x) < Key(pivot)

quick_sort_yield(g) ==
    CASE g.pc = "L126" -> before_info(g.a)
      [] g.pc = "L128" -> before_info(g.a)
      [] g.pc = "L173" -> Snapshot(g.a, <<g.j, g.high>>, <<>>, <<"compare to pivot">>)
      [] g.pc = "L176" -> Snapshot(g.a, <<g.i, g.j>>, <<>>, <<"swap smaller">>)
      [] g.pc = "L179" -> Snapshot(g.a, <<g.i, g.high>>, <<>>, <<"pivot placed">>)
      [] g.pc = "L184" -> final_info(g.a, g.n)

\* the for loop from its head with loop variable j, up to the next yield
quick_for(g, j) ==
    IF j < g.high
    THEN [g EXCEPT !.j = j, !.pc = "L173"]
    ELSE [g EXCEPT !.a = swap(g.a, g.i, g.high), !.pc = "L179"]

\* the while loop from its condition, up to the next yield
RECURSIVE quick_while(_)
quick_while(g) ==
    IF g.stack = <<>>
    THEN [g EXCEPT !.pc = "L184"]
    ELSE LET low == Top(g.stack)[1]
             high == Top(g.stack)[2]
             g1 == [g EXCEPT !.stack = Pop(g.stack), !.low = low, !.high = high]
         IN  IF low >= high
             THEN quick_while(g1)
             ELSE quick_for([g1 EXCEPT !.pivot = g.a[high], !.i = low], low)

\* stack.append((low, i - 1)); stack.append((i + 1, high))
quick_push_keeps_pivot(stack, low, i, high) == stack \o <<  <<low, i - 1>>, <<i, high>>  >>

quick_push(stack, low, i, high) == stack \o <<  <<low, i - 1>>, <<i + 1, high>>  >>

quick_sort_next(g) ==
    CASE g.pc = "start" ->
            LET n == len(g.arr)
            IN  [fn |-> g.fn, pc |-> IF n = 0 THEN "L126" ELSE "L128", arr |-> g.arr,
                 a |-> g.arr, n |-> n, stack |-> <<>>, low |-> 0, high |-> 0,
                 pivot |-> <<0, 0>>, i |-> 0, j |-> 0]
      [] g.pc = "L126" -> [g EXCEPT !.pc = "done"]
      [] g.pc = "L128" -> quick_while([g EXCEPT !.stack = << <<0, g.n - 1>> >>])
      [] g.pc = "L173" ->
            IF quick_smaller(g.a[g.j], g.pivot)
            THEN [g EXCEPT !.a = swap(g.a, g.i, g.j), !.pc = "L176"]
            ELSE quick_for(g, g.j + 1)
      [] g.pc = "L176" -> quick_for([g EXCEPT !.i = g.i + 1], g.j + 1)
      [] g.pc = "L179" ->
            quick_while([g EXCEPT !.stack = quick_push(g.stack, g.low, g.i, g.high)])
      [] g.pc = "L184" -> [g EXCEPT !.pc = "done"]
      [] g.pc = "done" -> g

----------------------------------------------------------------------------
\* The engine driven by a consumer that pulls until exhaustion

Algorithms ==
    {"bubble_sort", "selection_sort", "insertion_sort", "merge_sort", "quick_sort"}

generator(name, list) ==
    CASE name = "bubble_sort" -> bubble_sort(list)
      [] name = "selection_sort" -> selection_sort(list)
      [] name = "insertion_sort" -> insertion_sort(list)
      [] name = "merge_sort" -> merge_sort(list)
      [] name = "quick_sort" -> quick_sort(list)

yield(g) ==
    CASE g.fn = "bubble_sort" -> bubble_sort_yield(g)
      [] g.fn = "selection_sort" -> selection_sort_yield(g)
      [] g.fn = "insertion_sort" -> insertion_sort_yield(g)
      [] g.fn = "merge_sort" -> merge_sort_yield(g)
      [] g.fn = "quick_sort" -> quick_sort_yield(g)

\* the input lists: n keys, the item at position k tagged k
Inputs ==
    UNION {{[k \in 0..(n - 1) |-> <<keys[k], k>>] : keys \in [0..(n - 1) -> 1..MaxVal]}
           : n \in 0..MaxLen}

\* st.session_state.generator = None
None == [fn |-> "None", pc |-> "None"]

\* a script run that did nothing
NoEvent == [kind |-> "none", after_stop |-> "no", exhausted |-> FALSE]

\* the engine driven directly: no controller session exists
NoSession ==
    /\ session_state = [array |-> << >>, generator |-> None, running |-> FALSE,
                        last_snapshot |-> before_info(<< >>)]
    /\ algo_name = "Bubble Sort"
    /\ size = 0
    /\ event = NoEvent
    /\ stopped = "no"

Init ==
    /\ NoSession
    /\ algo \in Algorithms
    /\ arr \in Inputs
    /\ gen = generator(algo, arr)
    /\ snaps = <<>>
    /\ sites = <<>>
    /\ stops = 0

\* next(gen): the snapshot yielded, or StopIteration
Pull(g2) ==
    /\ stops < MaxStops
    /\ gen' = g2
    /\ IF g2.pc = "done"
       THEN /\ stops' = stops + 1
            /\ UNCHANGED <<snaps, sites>>
       ELSE /\ snaps' = Append(snaps, yield(g2))
            /\ sites' = Append(sites, g2.pc)
            /\ UNCHANGED stops
    /\ UNCHANGED <<algo, arr>>
    /\ UNCHANGED ctl_vars

PullBubble == gen.fn = "bubble_sort" /\ Pull(bubble_sort_next(gen))

PullSelection == gen.fn = "selection_sort" /\ Pull(selection_sort_next(gen))

PullInsertion == gen.fn = "insertion_sort" /\ Pull(insertion_sort_next(gen))

PullMerge == gen.fn = "merge_sort" /\ Pull(merge_sort_next(gen))

PullQuick == gen.fn = "quick_sort" /\ Pull(quick_sort_next(gen))

Next ==
    \/ PullBubble
    \/ PullSelection
    \/ PullInsertion
    \/ PullMerge
    \/ PullQuick

Spec == Init /\ [][Next]_vars

----------------------------------------------------------------------------
\* Vocabulary of the properties

n == len(arr)

\* the snapshot pulled last
last == snaps[Len(snaps)]

Range(seq) == {seq[k] : k \in 1..Len(seq)}

KeysOf(a) == {Key(a[k]) : k \in DOMAIN a}

Count(a, v) == Cardinality({k \in DOMAIN a : Key(a[k]) = v})

\* same length and the same multiset of values
IsPermutation(a, b) ==
    /\ DOMAIN a = DOMAIN b
    /\ \A v \in KeysOf(a) \cup KeysOf(b) : Count(a, v) = Count(b, v)

IsSorted(a) == \A p, q \in DOMAIN a : p < q => Key(a[p]) <= Key(a[q])

\* equal keys keep the relative order they have in the input (tags are input
\* positions)
IsStable(a) == \A p, q \in DOMAIN a : (p < q /\ Key(a[p]) = Key(a[q])) => Tag(a[p]) < Tag(a[q])

HasDuplicateKeys(a) == \E p, q \in DOMAIN a : p # q /\ Key(a[p]) = Key(a[q])

----------------------------------------------------------------------------
\* C1: for each algorithm and every input, the array of the last snapshot
\* pulled before exhaustion is in non-decreasing order and is a permutation
\* of the input.
C1_FinalSortedPermutation ==
    done => /\ snaps # <<>>
            /\ IsSorted(last.array)
            /\ IsPermutation(last.array, arr)

C1_Witness ==
    /\ done
    /\ algo = "quick_sort"
    /\ n >= 3
    /\ ~IsSorted(arr)
    /\ HasDuplicateKeys(arr)

\* C2 as stated: the array of every emitted snapshot is a permutation of the
\* input.
C2_EverySnapshotPermutation ==
    \A s \in 1..Len(snaps) : IsPermutation(snaps[s].array, arr)

\* the sites whose snapshot shows the list while a value is held outside it:
\* insertion_sort between taking the key and placing it, merge_sort while
\* the buffers L and R are written back
HoldingSites == {"L62", "L65", "L88", "L96", "L101", "L106"}

\* the list with what the generator holds outside it written back: the key at
\* j + 1 (insertion_sort), the unwritten rest of L then of R from k (merge_sort)
Restored(g) ==
    CASE g.fn = "insertion_sort" -> [g.a EXCEPT ![g.j + 1] = g.key]
      [] g.fn = "merge_sort" ->
            [p \in DOMAIN g.a |->
                IF p >= g.k /\ p < g.right
                THEN IF p - g.k < len(g.L) - g.i
                     THEN g.L[g.i + (p - g.k)]
                     ELSE g.R[g.j + (p - g.k) - (len(g.L) - g.i)]
                ELSE g.a[p]]

\* C2 amended: every snapshot has the input's length and only values of the
\* input; every snapshot of bubble_sort, selection_sort and quick_sort, every
\* first and last snapshot and every insertion_sort placement snapshot is a
\* permutation of the input; at the other sites of insertion_sort and
\* merge_sort the list with the held key or buffer rests written back is one.
C2_PermutationUpToHeldValues ==
    /\ \A s \in 1..Len(snaps) :
          /\ DOMAIN snaps[s].array = DOMAIN arr
          /\ KeysOf(snaps[s].array) \subseteq KeysOf(arr)
          /\ sites[s] \notin HoldingSites => IsPermutation(snaps[s].array, arr)
    /\ gen.pc \in HoldingSites =>
          /\ last.array = gen.a
          /\ IsPermutation(Restored(gen), arr)

C2_Witness ==
    /\ algo = "insertion_sort"
    /\ gen.pc = "L65"
    /\ ~IsPermutation(last.array, arr)

\* C3 as stated: for the empty input every algorithm yields exactly one
\* snapshot (empty array, active and sortedPrefix), and the pull after it
\* signals exhaustion.
C3_EmptyInputOneSnapshot ==
    n = 0 => /\ Len(snaps) <= 1
             /\ done => /\ Len(snaps) = 1
                        /\ len(last.array) = 0
                        /\ last.active = <<>>
                        /\ last.sorted = <<>>

\* C4: the last snapshot has an empty active set and a sortedPrefix of all
\* indices 0..n-1, and no snapshot is emitted after it: a pull of the
\* exhausted generator signals exhaustion again and yields nothing.
C4_FinalSnapshotInfo ==
    /\ [](done => /\ snaps # <<>>
                  /\ last.active = <<>>
                  /\ Range(last.sorted) = 0..(n - 1))
    /\ [][done => (snaps' = snaps /\ stops' = stops + 1)]_vars

C4_Witness ==
    /\ stops = 2
    /\ algo = "merge_sort"
    /\ n >= 2
    /\ Range(last.sorted) = 0..(n - 1)

\* C5: for a non-empty input the first snapshot carries the input unchanged,
\* with empty active and empty sortedPrefix.
C5_FirstSnapshotIsInput ==
    (n >= 1 /\ snaps # <<>>) =>
        /\ snaps[1].array = arr
        /\ snaps[1].active = <<>>
        /\ snaps[1].sorted = <<>>

C5_Witness ==
    /\ Len(snaps) = 1
    /\ algo = "selection_sort"
    /\ n >= 2
    /\ ~IsSorted(arr)

\* C6: in every snapshot, every index of active and of sortedPrefix is in
\* 0..n-1, and n is the length of the snapshot's array.
C6_IndicesInRange ==
    \A s \in 1..Len(snaps) :
        /\ len(snaps[s].array) = n
        /\ \A idx \in Range(snaps[s].active) \cup Range(snaps[s].sorted) :
              0 <= idx /\ idx < n

\* insertion_sort has shifted down to j = -1 and reports active = [j + 1]
C6_Witness ==
    /\ algo = "insertion_sort"
    /\ gen.pc \in {"L65", "L67"}
    /\ gen.j = -1
    /\ last.active = <<0>>

\* C7: at every 'pivot placed' snapshot of quick_sort, for the popped range
\* (low, high) and the pivot's index i, every element of [low, i) is strictly
\* less than the element at i and every element of [i, high] is greater than
\* or equal to it.
C7_PivotPlaced ==
    (gen.fn = "quick_sort" /\ gen.pc = "L179") =>
        /\ gen.low <= gen.i /\ gen.i <= gen.high
        /\ last.active = <<gen.i, gen.high>>
        /\ \A p \in gen.low..(gen.i - 1) : Key(last.array[p]) < Key(last.array[gen.i])
        /\ \A p \in gen.i..gen.high : Key(last.array[p]) >= Key(last.array[gen.i])

\* a pivot placed strictly inside its range, with an equal key to its right
C7_Witness ==
    /\ gen.fn = "quick_sort"
    /\ gen.pc = "L179"
    /\ gen.low < gen.i /\ gen.i < gen.high
    /\ \E p \in (gen.i + 1)..gen.high : Key(last.array[p]) = Key(last.array[gen.i])

\* C8: merge_sort is stable: elements with equal keys appear in the final
\* snapshot in the relative order they have in the input.
C8_MergeStable ==
    (done /\ algo = "merge_sort") => IsStable(last.array)

\* a run that moved elements, on an input with two equal keys apart
C8_Witness ==
    /\ done
    /\ algo = "merge_sort"
    /\ ~IsSorted(arr)
    /\ \E p, q \in DOMAIN arr : p + 1 < q /\ Key(arr[p]) = Key(arr[q])

\* C9: on an input of length n >= 1 already in non-decreasing order
\* bubble_sort makes one pass: n-1 comparison snapshots, no swap snapshot and
\* the early exit, n+1 snapshots in all; and no input of length n makes it
\* emit fewer than n+1 snapshots.
C9_BubbleSortedInputOnePass ==
    (done /\ algo = "bubble_sort") =>
        /\ Len(snaps) >= n + 1
        /\ (n >= 1 /\ IsSorted(arr)) =>
              /\ Len(snaps) = n + 1
              /\ sites[1] = "L23"
              /\ \A s \in 2..n : sites[s] = "L27" /\ snaps[s].active = <<s - 2, s - 1>>
              /\ sites[n + 1] = "L34"
              /\ gen.i = 0

C9_Witness ==
    /\ done
    /\ algo = "bubble_sort"
    /\ n >= 3
    /\ IsSorted(arr)
    /\ Len(snaps) = n + 1

\* the selection_sort snapshots emitted inside outer iteration i
SelectionIterationSites == {"L44", "L47", "L50"}

\* C10 as stated: every selection_sort snapshot emitted during outer
\* iteration i, the one after the swap included, reports a sortedPrefix of
\* exactly i indices.
C10_SelectionPrefixLength ==
    (gen.fn = "selection_sort" /\ gen.pc \in SelectionIterationSites) =>
        Len(last.sorted) = gen.i

\* C10 amended: during outer iteration i the per-candidate and new-minimum
\* snapshots report exactly the i indices 0..i-1, and the snapshot after the
\* swap reports the i+1 indices 0..i.
C10_SelectionPrefixLengthAmended ==
    (gen.fn = "selection_sort" /\ gen.pc \in SelectionIterationSites) =>
        /\ 0 <= gen.i /\ gen.i < n
        /\ gen.pc \in {"L44", "L47"} =>
              Len(last.sorted) = gen.i /\ Range(last.sorted) = 0..(gen.i - 1)
        /\ gen.pc = "L50" =>
              Len(last.sorted) = gen.i + 1 /\ Range(last.sorted) = 0..gen.i

C10_Witness ==
    /\ gen.fn = "selection_sort"
    /\ gen.pc = "L50"
    /\ gen.i >= 1
    /\ Len(last.sorted) = gen.i + 1

\* a bound on the snapshots of one run over n elements: at most n(n-1)/2
\* comparisons or shifts of two snapshots each, n placements, two frames
SnapshotBound(m) == m * m + 2

\* C16: every step sequence is finite.  A pull either yields one more
\* snapshot or signals exhaustion, and a run over n elements never holds more
\* than SnapshotBound(n) snapshots, so exhaustion comes within
\* SnapshotBound(n) + 1 pulls; a generator that has returned stays returned;
\* every range quick_sort pushes is strictly shorter than the range it came
\* from, and every sort_rec frame of merge_sort splits its range into two
\* strictly shorter ones.
C16_StepSequenceFinite ==
    /\ Len(snaps) <= SnapshotBound(n)
    /\ done <=> (gen.pc = "done")
    /\ (gen.fn = "quick_sort" /\ gen.pc = "L179") =>
          /\ gen.low <= gen.i /\ gen.i <= gen.high
          /\ LET pushed == quick_push(gen.stack, gen.low, gen.i, gen.high)
             IN  \A k \in (Len(gen.stack) + 1)..Len(pushed) :
                    pushed[k][2] - pushed[k][1] < gen.high - gen.low
    /\ (gen.fn = "merge_sort" /\ gen.pc \in {"L88", "L96", "L101", "L106"}) =>
          \A k \in 1..Len(gen.stack) :
              /\ gen.stack[k].left < gen.stack[k].mid
              /\ gen.stack[k].mid < gen.stack[k].right
              /\ k > 1 => gen.stack[k].right - gen.stack[k].left
                             < gen.stack[k - 1].right - gen.stack[k - 1].left

\* an exhausted quick_sort run that partitioned more than once, or an
\* exhausted merge_sort run that recursed more than one level
C16_Witness ==
    /\ done
    /\ n = MaxLen
    /\ algo \in {"quick_sort", "merge_sort"}
    /\ ~IsSorted(arr)
    /\ Len(snaps) > 2 * n

\* C17: in bubble_sort and selection_sort every index reported in
\* sortedPrefix already holds its final value: the value at that index is the
\* same in the last snapshot of the run.
C17_SortedPrefixIsFinal ==
    (done /\ algo \in {"bubble_sort", "selection_sort"}) =>
        \A s \in 1..Len(snaps) : \A k \in Range(snaps[s].sorted) :
            Key(snaps[s].array[k]) = Key(last.array[k])

\* a run with a snapshot that reports a non-empty sortedPrefix while other
\* positions still differ from the final order
C17_Witness ==
    /\ done
    /\ algo \in {"bubble_sort", "selection_sort"}
    /\ \E s \in 1..Len(snaps) :
          /\ snaps[s].sorted # <<>>
          /\ snaps[s].active # <<>>
          /\ \E k \in DOMAIN arr : Key(snaps[s].array[k]) # Key(last.array[k])

\* C19: insertion_sort is stable: elements with equal keys appear in the
\* final snapshot in the relative order they have in the input.
C19_InsertionStable ==
    (done /\ algo = "insertion_sort") => IsStable(last.array)

\* a run that shifted an element past others, on an input with equal keys
C19_Witness ==
    /\ done
    /\ algo = "insertion_sort"
    /\ "L65" \in Range(sites)
    /\ \E p, q \in DOMAIN arr : p < q /\ Key(arr[p]) = Key(arr[q]) /\ Key(arr[p]) > Key(arr[n - 1])

\* C20: in quick_sort a placed pivot never moves again: the item a 'pivot
\* placed' snapshot shows at the pivot's index i (the first index of its
\* active list) is at index i, with the same value, in every later snapshot
\* of the run.
C20_PlacedPivotStays ==
    algo = "quick_sort" =>
        \A s \in 1..Len(snaps) : \A t \in s..Len(snaps) :
            sites[s] = "L179" =>
                snaps[t].array[snaps[s].active[1]] = snaps[s].array[snaps[s].active[1]]

\* a pivot placed before the last partition, in a run with later swaps
C20_Witness ==
    /\ algo = "quick_sort"
    /\ done
    /\ \E s \in 1..Len(snaps) : \E t \in (s + 1)..Len(snaps) :
          /\ sites[s] = "L179"
          /\ sites[t] = "L176"
          /\ snaps[t].array # snaps[s].array

----------------------------------------------------------------------------
\* The run controller of src/Project/app.py
\*
\* Streamlit runs the script from the top on every submit of the sidebar form
\* (one of the four buttons, carrying the widget values).  Lines 51-93 of a
\* script run touch no Streamlit element and are one atomic step; from line
\* 96 on the run can be replaced by the next one at every element call, so
\* each pull of the playback loop (lines 130-134) is a step of its own.

\* slider 'Array size': min_value
SizeMin == 5
\* sizes explored: SizeMin..SizeMin + SizeSpan
SizeSpan == 1
\* outcomes of one call of random_array explored per size
MaxDraw == 2

Sizes == SizeMin..(SizeMin + SizeSpan)

ALGORITHMS ==
    [name \in {"Bubble Sort", "Selection Sort", "Insertion Sort", "Merge Sort", "Quick Sort"} |->
        CASE name = "Bubble Sort" -> "bubble_sort"
          [] name = "Selection Sort" -> "selection_sort"
          [] name = "Insertion Sort" -> "insertion_sort"
          [] name = "Merge Sort" -> "merge_sort"
          [] name = "Quick Sort" -> "quick_sort"]

\* [random.randint(low, high) for _ in range(n)]: draw r of the lists of n
\* integers, the item at position k tagged k
random_array(m, r) == [k \in 0..(m - 1) |-> <<1 + ((r * (k + 1)) % MaxVal), k>>]

IsNone(g) == g.fn = "None"

\* next(g) for a generator of any of the five algorithms
next(g) ==
    CASE g.fn = "bubble_sort" -> bubble_sort_next(g)
      [] g.fn = "selection_sort" -> selection_sort_next(g)
      [] g.fn = "insertion_sort" -> insertion_sort_next(g)
      [] g.fn = "merge_sort" -> merge_sort_next(g)
      [] g.fn = "quick_sort" -> quick_sort_next(g)

\* array = random_array(size, 1, 100); generator = None; running = False;
\* last_snapshot = (array.copy(), {'active': [], 'sorted': []})
reset(array) ==
    [array |-> array, generator |-> None, running |-> FALSE,
     last_snapshot |-> before_info(array)]

\* if len(st.session_state.array) != size: ...
on_size_change(s, sz, r) == IF len(s.array) # sz THEN reset(random_array(sz, r)) ELSE s

\* if start: ...
on_start(s, name) ==
    [s EXCEPT !.generator = generator(ALGORITHMS[name], s.array), !.running = TRUE]

\* if stop: ...
on_stop_keeps_generator(s) == [s EXCEPT !.running = FALSE]

on_stop_keeps_running(s) == [s EXCEPT !.generator = None]

on_stop(s) == [s EXCEPT !.running = FALSE, !.generator = None]

\* except StopIteration: ...
on_StopIteration_uncaught(s) == s

on_StopIteration(s) == [s EXCEPT !.generator = None, !.running = FALSE]

\* the list st.session_state.array names after generator g has advanced: g
\* was given array.copy() and works on a copy of that, so none of its writes
\* (g.a) reaches the list
private_copy_shared(array, g) == g.a

private_copy(array, g) == array

\* the pull raises StopIteration
Exhausts(s) == ~IsNone(s.generator) /\ next(s.generator).pc = "done"

\* try: snapshot = next(generator); last_snapshot = snapshot
\* except StopIteration: ...
pull(s) ==
    LET g2 == next(s.generator)
    IN  IF g2.pc = "done"
        THEN on_StopIteration(s)
        ELSE [s EXCEPT !.generator = g2, !.last_snapshot = yield(g2),
                       !.array = private_copy(s.array, g2)]

\* the pulls of one step event
step_pull_twice(s) ==
    LET s1 == pull(s) IN IF IsNone(s1.generator) THEN s1 ELSE pull(s1)

step_pull(s) == pull(s)

\* if step_btn: ...
on_step(s, name) ==
    step_pull(IF IsNone(s.generator)
              THEN [s EXCEPT !.generator = generator(ALGORITHMS[name], s.array)]
              ELSE s)

\* lines 76-93: the handler of the button that submitted the form
button(kind, name, s) ==
    CASE kind = "start" -> on_start(s, name)
      [] kind = "stop" -> on_stop(s)
      [] kind = "step" -> on_step(s, name)
      [] OTHER -> s

\* lines 60-73: the session state when the button handlers are reached
resets(kind, s, sz, r) ==
    on_size_change(IF kind = "randomize" THEN reset(random_array(sz, r)) ELSE s, sz, r)

\* the session state when the step handler pulls
at_step(s, name, sz, r) ==
    LET s1 == resets("step", s, sz, r)
    IN  IF IsNone(s1.generator)
        THEN [s1 EXCEPT !.generator = generator(ALGORITHMS[name], s1.array)]
        ELSE s1

\* a stop was handled over a run that had advanced ("run") or over none
\* ("idle"); "no" once something was pulled since
Stopped(kind, s) ==
    CASE kind = "stop" ->
            IF ~IsNone(s.generator) /\ s.generator.pc # "start" /\ s.last_snapshot.active # <<>>
            THEN "run" ELSE "idle"
      [] kind = "step" -> "no"
      [] OTHER -> stopped

\* lines 51-93 of the script run started by submitting the form with button
\* `kind`, algorithm `name` and size `sz`; r is the draw of random_array
Rerun(kind, name, sz, r) ==
    /\ session_state' = button(kind, name, resets(kind, session_state, sz, r))
    /\ algo_name' = name
    /\ size' = sz
    /\ event' = [kind |-> kind,
                 after_stop |-> IF kind = "step" THEN stopped ELSE "no",
                 exhausted |-> kind = "step" /\ Exhausts(at_step(session_state, name, sz, r))]
    /\ stopped' = Stopped(kind, session_state)
    /\ UNCHANGED engine_vars

\* the draws a script run can see: random_array is called only by a reset
Draws(kind, sz) ==
    IF kind = "randomize" \/ len(session_state.array) # sz THEN 1..MaxDraw ELSE {1}

Randomize ==
    \E name \in DOMAIN ALGORITHMS, sz \in Sizes :
        \E r \in Draws("randomize", sz) : Rerun("randomize", name, sz, r)

Start ==
    \E name \in DOMAIN ALGORITHMS, sz \in Sizes :
        \E r \in Draws("start", sz) : Rerun("start", name, sz, r)

Stop ==
    \E name \in DOMAIN ALGORITHMS, sz \in Sizes :
        \E r \in Draws("stop", sz) : Rerun("stop", name, sz, r)

Step ==
    \E name \in DOMAIN ALGORITHMS, sz \in Sizes :
        \E r \in Draws("step", sz) : Rerun("step", name, sz, r)

\* lines 126-140: one pull of the playback loop.  The test of line 136 reads
\* a flag nothing in the loop changes, so the loop ends by StopIteration or
\* by the script run being replaced.
Playback ==
    /\ session_state.running
    /\ ~IsNone(session_state.generator)
    /\ session_state' = pull(session_state)
    /\ event' = [kind |-> "playback", after_stop |-> stopped,
                 exhausted |-> Exhausts(session_state)]
    /\ stopped' = "no"
    /\ UNCHANGED <<algo_name, size>>
    /\ UNCHANGED engine_vars

\* lines 51-57: the session created by the first script run, for the sizes
\* explored; no engine run is followed
CtlInit ==
    /\ algo_name = "Bubble Sort"
    /\ size \in Sizes
    /\ \E r \in 1..MaxDraw : session_state = reset(random_array(size, r))
    /\ event = [kind |-> "init", after_stop |-> "no", exhausted |-> FALSE]
    /\ stopped = "no"
    /\ algo = "bubble_sort"
    /\ arr = << >>
    /\ gen = generator(algo, arr)
    /\ snaps = <<>>
    /\ sites = <<>>
    /\ stops = 0

CtlNext ==
    \/ Randomize
    \/ Start
    \/ Stop
    \/ Step
    \/ Playback

CtlSpec == CtlInit /\ [][CtlNext]_vars

----------------------------------------------------------------------------
\* Vocabulary of the controller's properties

Buttons == {"randomize", "start", "stop", "step"}

Pulls == {"step", "playback"}

Held == ~IsNone(session_state.generator)

\* the final snapshot of a run: the whole array reported sorted
IsFinal(snapshot) ==
    /\ snapshot.active = <<>>
    /\ snapshot.sorted = range(0, len(snapshot.array))
    /\ IsSorted(snapshot.array)

----------------------------------------------------------------------------
\* C11: a script run that carries a changed algorithm, a changed array size
\* or the randomize button leaves the session as if the button's handler had
\* acted on Idle (no generator, running false, last_snapshot the baseline
\* over the current array); so a step after an algorithm change pulls the
\* first snapshot of the new algorithm, not the next one of the old.
C11_ResetToIdle ==
    [][(/\ event'.kind \in Buttons
        /\ (algo_name' # algo_name \/ size' # size \/ event'.kind = "randomize"))
       => session_state' = button(event'.kind, algo_name', reset(session_state'.array))]_vars

\* C11 for the two events the code handles (lines 60-73): the array size
\* changed, or randomize was pressed.
C11_SizeOrRandomizeResets ==
    [][(/\ event'.kind \in Buttons
        /\ (size' # size \/ event'.kind = "randomize"))
       => session_state' = button(event'.kind, algo_name', reset(session_state'.array))]_vars

C13_StopDiscards ==
    [][/\ event'.kind = "stop" => (IsNone(session_state'.generator) /\ ~session_state'.running)
       /\ (event'.kind \in Pulls /\ stopped # "no") =>
             /\ session_state'.last_snapshot = before_info(session_state'.array)
             /\ Held'
             /\ session_state'.generator.arr = session_state'.array]_vars

\* the first pull after a stop that ended a run which had advanced
C13_Witness ==
    /\ event.kind \in Pulls
    /\ event.after_stop = "run"
    /\ session_state.last_snapshot = before_info(session_state.array)

\* C14: a pull that raises StopIteration, by a step or in playback, leaves
\* no generator, running false and last_snapshot as it was, which is the
\* final snapshot of the run.
C14_ExhaustionIsDone ==
    [][(/\ event'.kind \in Pulls
        /\ len(session_state.array) = size'
        /\ Exhausts(session_state))
       => /\ IsNone(session_state'.generator)
          /\ ~session_state'.running
          /\ session_state'.last_snapshot = session_state.last_snapshot
          /\ IsFinal(session_state'.last_snapshot)
          /\ session_state'.array = session_state.array]_vars

\* playback has run into exhaustion
C14_Witness ==
    /\ event.kind = "playback"
    /\ event.exhausted
    /\ ~Held
    /\ IsFinal(session_state.last_snapshot)
    /\ session_state.last_snapshot.array # session_state.array

\* C15: start, step, stop and playback pulls leave the stored array as it
\* is unless the array size changed, and the list a held generator was given
\* still equals the stored array.
C15_ArrayUntouched ==
    /\ [][(event'.kind \in {"start", "stop", "step", "playback"} /\ size' = size)
          => session_state'.array = session_state.array]_vars
    /\ [](Held => session_state.generator.arr = session_state.array)
    /\ [](len(session_state.array) = size)

\* a generator whose working list has moved away from the stored array
C15_Witness ==
    /\ Held
    /\ session_state.generator.pc \notin {"start", "done"}
    /\ session_state.generator.a # session_state.array
    /\ ~IsSorted(session_state.array)

\* C18: after every script run step, running implies a generator is held.
C18_RunningHoldsGenerator == session_state.running => Held

\* playback has ended by exhaustion: the flag and the generator went together
C18_Witness ==
    /\ event.kind = "playback"
    /\ event.exhausted
    /\ ~session_state.running
    /\ ~Held

====
